---- MODULE Spec2Model ----
(***************************************************************************)
(* Model of id3validator.py: the Track class (lazy, cached validation of   *)
(* a file's tags against a TrackType) and the re-import path of            *)
(* ValidationDropper.__import_file.                                        *)
(*                                                                         *)
(* A Python str is a sequence of one-character strings, so that            *)
(* str.split(", "), the slices item[0:3] / item[3:] and int() are computed *)
(* character by character.  A validation message is a sequence of strings: *)
(* the enum value alone, or, for INVALID_GENRE, the enum value followed by *)
(* ": " and the characters of the offending item (the f-string of line     *)
(* 197).                                                                   *)
(***************************************************************************)
EXTENDS Naturals, Integers, Sequences, FiniteSets, TLC

VARIABLES
    type,        \* self.type: the TrackType the track is validated against
    hasMetadata, \* whether the attribute self.metadata has ever been assigned
    metadata,    \* self.metadata: present tag key -> list of str values
    valid,       \* self.__valid
    validated,   \* self.__validated
    errors,      \* self.__errors
    warnings,    \* self.__warnings
    noHeader,    \* the last refresh() caught ID3NoHeaderError
    passes,      \* validate() runs started since the last refresh()
    last         \* the last call on the track and how it ended

vars == <<type, hasMetadata, metadata, valid, validated, errors, warnings,
          noHeader, passes, last>>

---------------------------------------------------------------------------
(* Bounds of the model *)

\* most flattened genre tokens in one file's genre tag
MaxTokens == 2

\* most validate() runs between two refresh() calls
MaxPasses == 2

---------------------------------------------------------------------------
(* ValidationMessages *)

NO_METADATA == <<"No metadata found">>
MISSING_TITLE == <<"Missing title">>
MISSING_ARTIST == <<"Missing artist">>
MISSING_ALBUM == <<"Missing album">>
MISSING_YEAR == <<"Missing year">>
MISSING_CATEGORY == <<"Missing category">>
INVALID_CATEGORY == <<"Invalid category">>
INVALID_GENRE == <<"Invalid item in genre">>
CATEGORY_WRONG_POSITION == <<"Category in wrong position">>

\* f"{ValidationMessages.INVALID_GENRE.value}: {item}"
InvalidGenreMessage(item) == INVALID_GENRE \o <<":", " ">> \o item

---------------------------------------------------------------------------
(* Track types *)

ALL_CATEGORIES ==
    {11, 12, 21, 22, 23, 24, 31, 32, 33, 34, 35, 36, 41, 42, 43, 44, 45, 51, 52, 53}

cancon == <<"c", "a", "n", "c", "o", "n">>
local == <<"l", "o", "c", "a", "l">>

ALL_GENRE_ITEMS == {cancon, local}

TrackType(name, valid_categories, valid_genre_items, artist_mandatory, album_mandatory) ==
    [name |-> name,
     valid_categories |-> valid_categories,
     valid_genre_items |-> valid_genre_items,
     artist_mandatory |-> artist_mandatory,
     album_mandatory |-> album_mandatory]

DEFAULT_TYPE == TrackType("Default", ALL_CATEGORIES, ALL_GENRE_ITEMS, FALSE, FALSE)

TRACK_TYPES ==
    { TrackType("Music", {21, 22, 23, 24, 31, 32, 33, 34, 35, 36},
                ALL_GENRE_ITEMS, TRUE, TRUE),
      TrackType("Prerecorded", {11, 12, 21, 22, 23, 24, 31, 32, 33, 34, 35, 36},
                {}, TRUE, TRUE),
      TrackType("Station ID", {43}, {}, FALSE, FALSE) }

\* the types a Track is ever constructed with or rebound to
TrackTypes == TRACK_TYPES \cup {DEFAULT_TYPE}

---------------------------------------------------------------------------
(* Python string operations *)

Digits == {"0", "1", "2", "3", "4", "5", "6", "7", "8", "9"}

DigitValue(c) ==
    CASE c = "0" -> 0 [] c = "1" -> 1 [] c = "2" -> 2 [] c = "3" -> 3
      [] c = "4" -> 4 [] c = "5" -> 5 [] c = "6" -> 6 [] c = "7" -> 7
      [] c = "8" -> 8 [] c = "9" -> 9

\* s[i:] and s[i:j] with 0-based Python indices, clipped at the ends
SliceFrom(s, i) == SubSeq(s, i + 1, Len(s))
SliceTo(s, j) == SubSeq(s, 1, IF j < Len(s) THEN j ELSE Len(s))

\* 1-based position of the first ", " in s at or after position i, 0 if none
RECURSIVE FindSeparator(_, _)
FindSeparator(s, i) ==
    IF i + 1 > Len(s) THEN 0
    ELSE IF s[i] = "," /\ s[i + 1] = " " THEN i
    ELSE FindSeparator(s, i + 1)

\* s.split(", ")
RECURSIVE Split(_)
Split(s) ==
    LET p == FindSeparator(s, 1)
    IN  IF p = 0 THEN <<s>>
        ELSE <<SubSeq(s, 1, p - 1)>> \o Split(SubSeq(s, p + 2, Len(s)))

\* s.strip() for the one whitespace character of the model's alphabet
RECURSIVE StripLeft(_)
StripLeft(s) == IF s # <<>> /\ Head(s) = " " THEN StripLeft(Tail(s)) ELSE s

RECURSIVE StripRight(_)
StripRight(s) ==
    IF s # <<>> /\ s[Len(s)] = " " THEN StripRight(SubSeq(s, 1, Len(s) - 1)) ELSE s

\* the digits of a decimal literal body: digits, single underscores between digits
RECURSIVE DecimalBody(_, _)
DecimalBody(s, afterDigit) ==
    IF s = <<>> THEN afterDigit
    ELSE IF Head(s) \in Digits THEN DecimalBody(Tail(s), TRUE)
    ELSE IF Head(s) = "_" THEN afterDigit /\ Tail(s) # <<>> /\ Head(Tail(s)) \in Digits
                                /\ DecimalBody(Tail(s), FALSE)
    ELSE FALSE

RECURSIVE DecimalValue(_, _)
DecimalValue(s, acc) ==
    IF s = <<>> THEN acc
    ELSE IF Head(s) = "_" THEN DecimalValue(Tail(s), acc)
    ELSE DecimalValue(Tail(s), 10 * acc + DigitValue(Head(s)))

\* int() of a stripped literal: an optional sign, then the decimal body
ParseSigned(negative, body) ==
    IF body # <<>> /\ DecimalBody(body, FALSE)
    THEN [ok |-> TRUE,
          value |-> IF negative THEN 0 - DecimalValue(body, 0)
                    ELSE DecimalValue(body, 0)]
    ELSE [ok |-> FALSE, value |-> 0]

ParseStripped(t) ==
    IF t # <<>> /\ Head(t) \in {"+", "-"}
    THEN ParseSigned(Head(t) = "-", Tail(t))
    ELSE ParseSigned(FALSE, t)

\* int(s): [ok |-> TRUE, value |-> n], or ok = FALSE where int raises
\* ValueError.  The alphabet of the model has the ASCII digits and the space;
\* other whitespace and the non-ASCII digits int() accepts are not in it.
ParseInt(s) == ParseStripped(StripRight(StripLeft(s)))

---------------------------------------------------------------------------
(* Track.__validate_genre *)

\* lines 161-164: every value of the genre tag split on ", ", in order
RECURSIVE FlattenGenres(_)
FlattenGenres(values) ==
    IF values = <<>> THEN <<>>
    ELSE Split(Head(values)) \o FlattenGenres(Tail(values))

\* lines 172-175, for the first item with the prefix, at 1-based index i
CategoryAt(i, n) ==
    [contains_category |-> TRUE, category_index |-> i, category |-> n.value,
     raised |-> ~n.ok]

\* lines 167-175: the loop that looks for the first item with item[0:3] == "cat".
\* category_index is 1-based here (0: None); raised is the ValueError of int().
RECURSIVE FindCategory(_, _)
FindCategory(genres, i) ==
    IF i > Len(genres)
    THEN [contains_category |-> FALSE, category_index |-> 0, category |-> 0,
          raised |-> FALSE]
    ELSE IF SliceTo(genres[i], 3) = <<"c", "a", "t">>
    THEN CategoryAt(i, ParseInt(SliceFrom(genres[i], 3)))
    ELSE FindCategory(genres, i + 1)

\* lines 193-199: the items other than the category that the type does not
\* allow ("i is not category_index": every index of the model is a small int,
\* for which identity is equality)
RECURSIVE InvalidItems(_, _, _, _)
InvalidItems(genres, i, category_index, valid_genre_items) ==
    IF i > Len(genres) THEN <<>>
    ELSE (IF i # category_index /\ genres[i] \notin valid_genre_items
          THEN <<InvalidGenreMessage(genres[i])>> ELSE <<>>)
         \o InvalidItems(genres, i + 1, category_index, valid_genre_items)

\* lines 177-179 and 189-190: a missing category sets genre_valid to False, an
\* invalid one is appended and genre_valid is left alone
CategoryErrors(c, valid_categories) ==
    IF ~c.contains_category THEN <<MISSING_CATEGORY>>
    ELSE IF c.category \notin valid_categories THEN <<INVALID_CATEGORY>>
    ELSE <<>>

\* lines 183-186
PositionWarnings(c) ==
    IF c.contains_category /\ c.category_index # 1
    THEN <<CATEGORY_WRONG_POSITION>> ELSE <<>>

\* lines 177-199 once the loop of lines 170-175 has ended with c; bad is what
\* the loop of lines 193-199 appends
GenreChecks(c, bad, ty, errs, warns) ==
    IF c.raised
    THEN [errors |-> errs, warnings |-> warns, genre_valid |-> FALSE, raised |-> TRUE]
    ELSE [errors |-> errs \o CategoryErrors(c, ty.valid_categories) \o bad,
          warnings |-> warns \o PositionWarnings(c),
          genre_valid |-> c.contains_category /\ bad = <<>>,
          raised |-> FALSE]

GenreItems(genres, c, ty, errs, warns) ==
    GenreChecks(c, InvalidItems(genres, 1, c.category_index, ty.valid_genre_items),
                ty, errs, warns)

GenreTokens(genres, ty, errs, warns) ==
    GenreItems(genres, FindCategory(genres, 1), ty, errs, warns)

\* the whole method, on the lists as they are when it is called: the lists
\* after it, its return value, and whether int() raised ValueError (line 174,
\* before the method has appended anything)
ValidateGenre(md, ty, errs, warns) ==
    IF "genre" \in DOMAIN md
    THEN GenreTokens(FlattenGenres(md["genre"]), ty, errs, warns)
    ELSE [errors |-> errs \o <<MISSING_CATEGORY>>, warnings |-> warns,
          genre_valid |-> FALSE, raised |-> FALSE]

---------------------------------------------------------------------------
(* Track.validate *)

\* lines 235-237
TitleErrors(md) == IF "title" \notin DOMAIN md THEN <<MISSING_TITLE>> ELSE <<>>

\* lines 239-244 without the test of line 240: a missing album is an error
\* under every type
AlbumErrorsWhateverTheType(md, ty) ==
    IF "album" \notin DOMAIN md THEN <<MISSING_ALBUM>> ELSE <<>>

\* lines 239-244
AlbumErrors(md, ty) ==
    IF "album" \notin DOMAIN md /\ ty.album_mandatory THEN <<MISSING_ALBUM>> ELSE <<>>
AlbumWarnings(md, ty) ==
    IF "album" \notin DOMAIN md /\ ~ty.album_mandatory THEN <<MISSING_ALBUM>> ELSE <<>>

\* lines 246-251
ArtistErrors(md, ty) ==
    IF "artist" \notin DOMAIN md /\ ty.artist_mandatory THEN <<MISSING_ARTIST>> ELSE <<>>
ArtistWarnings(md, ty) ==
    IF "artist" \notin DOMAIN md /\ ~ty.artist_mandatory THEN <<MISSING_ARTIST>> ELSE <<>>

\* lines 253-254
DateWarnings(md) == IF "date" \notin DOMAIN md THEN <<MISSING_YEAR>> ELSE <<>>

\* what lines 235-254 append to errors and to warnings
FieldErrors(md, ty) == TitleErrors(md) \o AlbumErrors(md, ty) \o ArtistErrors(md, ty)
FieldWarnings(md, ty) ==
    AlbumWarnings(md, ty) \o ArtistWarnings(md, ty) \o DateWarnings(md)

\* lines 256-261, with fe what lines 235-251 appended to errors and g the
\* outcome of __validate_genre: when it raised, lines 259-260 are not reached
FinishValidate(fe, g, v, vd) ==
    IF g.raised
    THEN [valid |-> v, validated |-> vd, errors |-> g.errors,
          warnings |-> g.warnings, raised |-> "ValueError"]
    ELSE [valid |-> fe = <<>> /\ g.genre_valid, validated |-> TRUE,
          errors |-> g.errors, warnings |-> g.warnings, raised |-> ""]

\* One run of validate() on a track that has a metadata attribute: the private
\* fields after it and the exception that ended it ("" when it returned).
\* Nothing is cleared first: the run appends to the lists as they are.
RunValidate(md, ty, v, vd, errs, warns) ==
    FinishValidate(FieldErrors(md, ty),
                   ValidateGenre(md, ty, errs \o FieldErrors(md, ty),
                                 warns \o FieldWarnings(md, ty)),
                   v, vd)

---------------------------------------------------------------------------
(* The tag reader's answers: what EasyID3(file_obj) finds in the file *)

cat43 == <<"c", "a", "t", "4", "3">>
cat == <<"c", "a", "t">>
catx == <<"c", "a", "t", "x">>

\* the items genre tags are written with: a well-formed category (valid for
\* the Default and Station ID types only), a category prefix with an empty and
\* with a non-numeric suffix, and an item that the Default and Music types allow
Vocabulary == {cat43, cat, catx, cancon}

TokenLists == UNION {[1..n -> Vocabulary] : n \in 1..MaxTokens}

\* the ways to store a token list as genre values: consecutive tokens are
\* either joined with ", " inside one value or put in separate values
RECURSIVE GenreValues(_)
GenreValues(tokens) ==
    IF Len(tokens) = 1 THEN {<<tokens[1]>>}
    ELSE UNION {{<<Head(tokens)>> \o g,
                 <<Head(tokens) \o <<",", " ">> \o Head(g)>> \o Tail(g)} :
                g \in GenreValues(Tail(tokens))}

GenreTags == UNION {GenreValues(t) : t \in TokenLists}

FieldKeys == {"title", "album", "artist", "date"}

\* an EasyID3 object: the keys present, each with its list of values
TagsWithoutGenre(keys) == [k \in keys |-> <<cancon>>]
TagsWithGenre(keys, genre) ==
    [k \in keys \cup {"genre"} |-> IF k = "genre" THEN genre ELSE <<cancon>>]

\* the tags a file is found with when its Track is constructed
Files ==
    {TagsWithoutGenre(ks) : ks \in SUBSET FieldKeys}
    \cup {TagsWithGenre(ks, g) : ks \in SUBSET FieldKeys, g \in GenreTags}

\* the tags a file already imported is found with when it is read again
Reread ==
    {TagsWithGenre(FieldKeys, <<cat43>>),
     TagsWithoutGenre({})}

---------------------------------------------------------------------------
(* Track.__init__ and Track.refresh *)

\* the record of a call that returns nothing; for a refresh, runs is the
\* number of validate() runs whose outcome the call threw away
NoValue(op, runs) == [op |-> op, raised |-> "", value |-> <<runs>>]

\* refresh() without line 211: the errors of the earlier validation stay
RefreshReadKeepingErrors(f) ==
    /\ valid' = FALSE
    /\ validated' = FALSE
    /\ errors' = errors
    /\ warnings' = <<>>
    /\ hasMetadata' = TRUE
    /\ metadata' = f
    /\ noHeader' = FALSE
    /\ passes' = 0

\* refresh() when EasyID3 returns the tags f (lines 209-216)
RefreshRead(f) ==
    /\ valid' = FALSE
    /\ validated' = FALSE
    /\ errors' = <<>>
    /\ warnings' = <<>>
    /\ hasMetadata' = TRUE
    /\ metadata' = f
    /\ noHeader' = FALSE
    /\ passes' = 0

\* refresh() when EasyID3 raises ID3NoHeaderError (lines 209-220): the
\* attribute self.metadata is not assigned
RefreshNoHeader ==
    /\ valid' = FALSE
    /\ validated' = TRUE
    /\ errors' = <<NO_METADATA>>
    /\ warnings' = <<>>
    /\ UNCHANGED <<hasMetadata, metadata>>
    /\ noHeader' = TRUE
    /\ passes' = 0

\* Track(filename, tracktype): lines 145-151
Init ==
    /\ type \in TrackTypes
    /\ passes = 0
    /\ last = NoValue("__init__", 0)
    /\ \/ /\ \E f \in Files : metadata = f
          /\ hasMetadata = TRUE
          /\ noHeader = FALSE
          /\ valid = FALSE
          /\ validated = FALSE
          /\ errors = <<>>
          /\ warnings = <<>>
       \/ /\ metadata = TagsWithoutGenre({})
          /\ hasMetadata = FALSE
          /\ noHeader = TRUE
          /\ valid = FALSE
          /\ validated = TRUE
          /\ errors = <<NO_METADATA>>
          /\ warnings = <<>>

Refresh ==
    /\ \/ \E f \in Reread : RefreshRead(f)
       \/ RefreshNoHeader
    /\ type' = type
    /\ last' = NoValue("refresh", passes)

\* ValidationDropper.__import_file, for a file already in the list (lines
\* 462-468): the listed track gets the selected type and is refreshed
ImportExisting ==
    /\ \E t \in TRACK_TYPES : type' = t
    /\ \/ \E f \in Reread : RefreshRead(f)
       \/ RefreshNoHeader
    /\ last' = NoValue("import", passes)

---------------------------------------------------------------------------
(* validate() and the accessors *)

\* the private fields after validate(): line 235 raises AttributeError when
\* self.metadata was never assigned
AfterValidate ==
    IF hasMetadata
    THEN RunValidate(metadata, type, valid, validated, errors, warnings)
    ELSE [valid |-> valid, validated |-> validated, errors |-> errors,
          warnings |-> warnings, raised |-> "AttributeError"]

\* "if not self.__validated: self.validate()" (lines 334-335, 344-345, 354-355)
AfterAccess ==
    IF validated
    THEN [valid |-> valid, validated |-> validated, errors |-> errors,
          warnings |-> warnings, raised |-> ""]
    ELSE AfterValidate

\* what the call op returns when the fields after it are r
Returned(op, r) ==
    CASE op \in {"validate", "valid"} -> <<r.valid>>
      [] op = "errors" -> r.errors
      [] op = "warnings" -> r.warnings
      [] op = "error_count" -> <<Len(r.errors)>>
      [] op = "warning_count" -> <<Len(r.warnings)>>

\* the assignments of a call op that leaves the fields r behind
Call(op, r) ==
    /\ valid' = r.valid
    /\ validated' = r.validated
    /\ errors' = r.errors
    /\ warnings' = r.warnings
    /\ last' = [op |-> op, raised |-> r.raised,
                value |-> IF r.raised = "" THEN Returned(op, r) ELSE <<>>]
    /\ UNCHANGED <<type, hasMetadata, metadata, noHeader>>

\* an explicit validate()
Validate ==
    /\ passes < MaxPasses
    /\ passes' = passes + 1
    /\ Call("validate", AfterValidate)

\* the validate() runs an accessor starts
AccessRuns == IF validated THEN 0 ELSE 1

\* the property valid (lines 348-356)
Valid ==
    /\ passes + AccessRuns <= MaxPasses
    /\ passes' = passes + AccessRuns
    /\ Call("valid", AfterAccess)

\* the property errors (lines 328-336)
Errors ==
    /\ passes + AccessRuns <= MaxPasses
    /\ passes' = passes + AccessRuns
    /\ Call("errors", AfterAccess)

\* the property warnings (lines 338-346)
Warnings ==
    /\ passes + AccessRuns <= MaxPasses
    /\ passes' = passes + AccessRuns
    /\ Call("warnings", AfterAccess)

\* the property error_count (lines 314-318): len(self.errors)
ErrorCount ==
    /\ passes + AccessRuns <= MaxPasses
    /\ passes' = passes + AccessRuns
    /\ Call("error_count", AfterAccess)

\* the property warning_count (lines 320-326): len(self.warnings)
WarningCount ==
    /\ passes + AccessRuns <= MaxPasses
    /\ passes' = passes + AccessRuns
    /\ Call("warning_count", AfterAccess)

Next ==
    \/ Refresh
    \/ ImportExisting
    \/ Validate
    \/ Valid
    \/ Errors
    \/ Warnings
    \/ ErrorCount
    \/ WarningCount

Spec == Init /\ [][Next]_vars

---------------------------------------------------------------------------
(* What the claims are stated with *)

\* how often message m occurs in the list msgs
Count(msgs, m) == Cardinality({i \in 1..Len(msgs) : msgs[i] = m})

Reported(msgs, m) == \E i \in 1..Len(msgs) : msgs[i] = m

\* the token list a genre tag was written from: the tokens hold no ", ", so
\* it is the only one the tag's values can be grouped from
TokensOfTag == [g \in GenreTags |-> CHOOSE t \in TokenLists : g \in GenreValues(t)]

HasGenre == hasMetadata /\ "genre" \in DOMAIN metadata
Tokens == IF HasGenre THEN TokensOfTag[metadata["genre"]] ELSE <<>>

\* the positions of the tokens that start with "cat", and the first of them
CatPositions(t) ==
    {i \in 1..Len(t) : Len(t[i]) >= 3 /\ t[i][1] = "c" /\ t[i][2] = "a" /\ t[i][3] = "t"}
FirstCat(t) == CHOOSE i \in CatPositions(t) : \A j \in CatPositions(t) : i <= j

\* the category tokens of the vocabulary whose suffix is a number, and the number
NumberedCategories == {cat43}
CodeOf(token) == IF token = cat43 THEN 43 ELSE 0

\* the first token starting with "cat" has a numeric suffix / has none
CategoryWellFormed(t) == CatPositions(t) # {} /\ t[FirstCat(t)] \in NumberedCategories
CategoryMalformed(t) == CatPositions(t) # {} /\ t[FirstCat(t)] \notin NumberedCategories

\* the track holds a snapshot read by its last refresh, and validate() has
\* run on it n times since
PassesOverSnapshot(n) == hasMetadata /\ ~noHeader /\ passes = n

---------------------------------------------------------------------------
(* C1 *)

\* C1: whenever the track is validated, after any sequence of refresh(),
\* validate() and accessor calls, valid is true if and only if errors is empty.
C1_VerdictIffNoErrors == validated => (valid <=> errors = <<>>)

---------------------------------------------------------------------------
(* C2 *)

\* C2: after a validation pass over a genre tag whose category token has a
\* code outside the type's valid_categories, INVALID_CATEGORY is among the
\* errors and the result is invalid.
C2_InvalidCategoryInvalidates ==
    (/\ PassesOverSnapshot(1)
     /\ validated
     /\ CategoryWellFormed(Tokens)
     /\ CodeOf(Tokens[FirstCat(Tokens)]) \notin type.valid_categories)
    => (Reported(errors, INVALID_CATEGORY) /\ ~valid)

---------------------------------------------------------------------------
(* C3 *)

\* C3: a validate() call on a track that has been validated since its last
\* refresh() leaves errors and warnings as the single pass left them.
C3_ValidateStartsAfresh ==
    [][(/\ hasMetadata /\ ~noHeader /\ validated
        /\ last'.op = "validate"
        /\ passes' = passes + 1)
       => (errors' = errors /\ warnings' = warnings)]_vars

---------------------------------------------------------------------------
(* C4 *)

\* C4: from a refresh() that found no tag header until the next refresh(),
\* whatever accessors and validate() calls are made, the track is validated and
\* invalid with errors = [NO_METADATA] and no warnings.
C4_NoHeaderIsTerminal ==
    noHeader => (validated /\ ~valid /\ errors = <<NO_METADATA>> /\ warnings = <<>>)

---------------------------------------------------------------------------
(* C5 *)

\* C5: a validation pass over a genre tag whose first token starting with
\* "cat" has a non-numeric or empty suffix completes and reports
\* MISSING_CATEGORY, as if there were no category token.
C5_MalformedCategoryIsMissing ==
    (PassesOverSnapshot(1) /\ CategoryMalformed(Tokens))
    => (/\ last.raised = ""
        /\ validated
        /\ Count(errors, MISSING_CATEGORY) = 1
        /\ ~Reported(errors, INVALID_CATEGORY)
        /\ ~valid)

---------------------------------------------------------------------------
(* C6 *)

AccessorOps == {"valid", "errors", "warnings", "error_count", "warning_count"}

\* C6: an accessor called on a track that is not validated runs the rules and
\* leaves the track validated; an accessor called after a run has been made
\* since the last refresh() starts no run, changes neither verdict nor lists,
\* and returns its projection of them.
C6_AccessorsCached ==
    [][(last'.op \in AccessorOps /\ passes' + passes > 0)
       => (/\ validated'
           /\ last'.raised = ""
           /\ last'.value = Returned(last'.op, [valid |-> valid', errors |-> errors',
                                                warnings |-> warnings'])
           /\ passes > 0 => (/\ passes' = passes
                             /\ valid' = valid
                             /\ errors' = errors
                             /\ warnings' = warnings))]_vars

---------------------------------------------------------------------------
(* C7 *)

Absent(key) == key \notin DOMAIN metadata

FieldMessages == {MISSING_TITLE, MISSING_ALBUM, MISSING_ARTIST, MISSING_YEAR}

\* the place of a field message in the order title, album, artist, date
Rank(m) ==
    CASE m = MISSING_TITLE -> 1 [] m = MISSING_ALBUM -> 2
      [] m = MISSING_ARTIST -> 3 [] m = MISSING_YEAR -> 4

\* the field messages of msgs stand in the order title, album, artist, date
InFieldOrder(msgs) ==
    \A i, j \in 1..Len(msgs) :
        (i < j /\ msgs[i] \in FieldMessages /\ msgs[j] \in FieldMessages)
        => Rank(msgs[i]) < Rank(msgs[j])

Once(condition) == IF condition THEN 1 ELSE 0

\* C7: after one validation pass over a snapshot, whether it completed or not,
\* MISSING_TITLE is an error iff title is absent; MISSING_ALBUM and
\* MISSING_ARTIST are reported iff the field is absent, as an error when the
\* type makes the field mandatory and as a warning otherwise; MISSING_YEAR is a
\* warning iff date is absent and never an error; the messages stand in the
\* order title, album, artist, date; and when the pass completed, a field error
\* makes the result invalid while an invalid result always has an error.
C7_FieldPresenceRules ==
    (hasMetadata /\ passes = 1)
    => (/\ Count(errors, MISSING_TITLE) = Once(Absent("title"))
        /\ Count(warnings, MISSING_TITLE) = 0
        /\ Count(errors, MISSING_ALBUM) = Once(Absent("album") /\ type.album_mandatory)
        /\ Count(warnings, MISSING_ALBUM) = Once(Absent("album") /\ ~type.album_mandatory)
        /\ Count(errors, MISSING_ARTIST) = Once(Absent("artist") /\ type.artist_mandatory)
        /\ Count(warnings, MISSING_ARTIST)
               = Once(Absent("artist") /\ ~type.artist_mandatory)
        /\ Count(warnings, MISSING_YEAR) = Once(Absent("date"))
        /\ Count(errors, MISSING_YEAR) = 0
        /\ InFieldOrder(errors)
        /\ InFieldOrder(warnings)
        /\ last.raised = ""
               => /\ (\E m \in FieldMessages : Reported(errors, m)) => ~valid
                  /\ ~valid => errors # <<>>)

\* a completed pass over a snapshot without album and date under a type that
\* makes album mandatory: one field error and one field warning
C7_Witness ==
    /\ PassesOverSnapshot(1)
    /\ validated
    /\ ~Absent("title") /\ Absent("album") /\ ~Absent("artist") /\ Absent("date")
    /\ type.album_mandatory
    /\ Reported(errors, MISSING_ALBUM)
    /\ warnings = <<MISSING_YEAR>>

---------------------------------------------------------------------------
(* C8 *)

\* the token list t with the token at position i moved to the front
MovedToFront(t, i) == <<t[i]>> \o SubSeq(t, 1, i - 1) \o SubSeq(t, i + 1, Len(t))

\* the snapshot with its genre tag rewritten as one value per token of t
WithTokens(md, t) == [md EXCEPT !["genre"] = [i \in 1..Len(t) |-> t[i]]]

\* one validation pass over md under the current type, from empty lists
PassOver(md) == RunValidate(md, type, FALSE, FALSE, <<>>, <<>>)

\* C8: after one validation pass over a genre tag with a token starting with
\* "cat", CATEGORY_WRONG_POSITION is a warning exactly when the first such
\* token is not the first token, it is never an error, and errors and verdict
\* are those of a pass over the tokens with that token moved to the front.
C8_CategoryPositionOnlyWarns ==
    (PassesOverSnapshot(1) /\ HasGenre /\ CatPositions(Tokens) # {})
    => (/\ Count(warnings, CATEGORY_WRONG_POSITION) = Once(FirstCat(Tokens) # 1)
        /\ ~Reported(errors, CATEGORY_WRONG_POSITION)
        /\ errors = PassOver(WithTokens(metadata,
                                        MovedToFront(Tokens, FirstCat(Tokens)))).errors
        /\ valid = PassOver(WithTokens(metadata,
                                       MovedToFront(Tokens, FirstCat(Tokens)))).valid)

---------------------------------------------------------------------------
(* C9 *)

\* the positions of t other than the category token's
OtherPositions(t) ==
    {i \in 1..Len(t) : CatPositions(t) = {} \/ i # FirstCat(t)}

\* the tokens at those positions that the type does not allow, in token order
RECURSIVE Disallowed(_, _)
Disallowed(t, i) ==
    IF i > Len(t) THEN <<>>
    ELSE (IF i \in OtherPositions(t) /\ t[i] \notin type.valid_genre_items
          THEN <<t[i]>> ELSE <<>>) \o Disallowed(t, i + 1)

\* the INVALID_GENRE errors of msgs, in order
GenreErrors(msgs) ==
    SelectSeq(msgs, LAMBDA m : Len(m) >= 1 /\ m[1] = INVALID_GENRE[1])

\* C9: after one validation pass over a snapshot, the INVALID_GENRE errors are,
\* in token order, one per token other than the category token that is not in
\* the type's valid_genre_items, each carrying the token's text, and any such
\* error makes the result invalid; without a genre field the genre errors are a
\* single MISSING_CATEGORY, no INVALID_GENRE, and the result is invalid.
C9_GenreItemRule ==
    PassesOverSnapshot(1)
    => IF HasGenre
       THEN /\ GenreErrors(errors)
                = [i \in 1..Len(Disallowed(Tokens, 1)) |->
                       <<"Invalid item in genre", ":", " ">> \o Disallowed(Tokens, 1)[i]]
            /\ Disallowed(Tokens, 1) # <<>> => (validated /\ ~valid)
       ELSE /\ GenreErrors(errors) = <<>>
            /\ Count(errors, MISSING_CATEGORY) = 1
            /\ ~Reported(errors, INVALID_CATEGORY)
            /\ validated /\ ~valid

---------------------------------------------------------------------------
(* C10 *)

\* C10: the track leaves the validated state only by a refresh(); a refresh()
\* that read a snapshot leaves no verdict and no message behind; and after
\* exactly one pass since that refresh, the verdict and the lists are those of
\* one pass from empty lists over the snapshot now held under the type now
\* bound, and an accessor that returned has returned its projection of them.
C10_RefreshDiscardsResult ==
    /\ [][(validated /\ ~validated') => last'.op \in {"refresh", "import"}]_vars
    /\ []((last.op \in {"refresh", "import"} /\ ~noHeader)
          => (~validated /\ ~valid /\ errors = <<>> /\ warnings = <<>>))
    /\ [](PassesOverSnapshot(1)
          => (/\ errors = PassOver(metadata).errors
              /\ warnings = PassOver(metadata).warnings
              /\ validated = PassOver(metadata).validated
              /\ valid = PassOver(metadata).valid
              /\ (last.op \in AccessorOps /\ last.raised = "")
                     => last.value = Returned(last.op, PassOver(metadata))))

\* a re-import has rebound the type of a track on which validate() had run,
\* and its refresh has read a snapshot
C10_Witness ==
    /\ last.op = "import"
    /\ last.value # <<0>>
    /\ hasMetadata /\ ~noHeader
    /\ type.name = "Station ID"
    /\ metadata = TagsWithGenre(FieldKeys, <<cat43>>)
    /\ errors = <<>> /\ warnings = <<>>
    /\ ~validated

====
